---- MODULE Spec2Model ----
(***************************************************************************)
(* Model of the 5118 SEO metadata tool (seo-tools/tools/seo-tools.py):     *)
(* SeoToolsTool._invoke, _validate_parameters, _call_5118_api and          *)
(* _format_seo_result.                                                     *)
(*                                                                         *)
(* Text.  A Python str is modelled as a sequence of symbols.  Each symbol  *)
(* is a TLA+ string standing for one character - a letter, a digit, a      *)
(* blank, a piece of JSON punctuation - or for one fixed literal of the    *)
(* source (a message, a header line, a key name such as errcode), which    *)
(* the program only ever copies, compares or searches for as a whole.      *)
(* len(s) is Len, s.strip() is Strip, s[:n] is Prefix, a + b is \o.        *)
(*                                                                         *)
(* The block structure of _format_seo_result is the one of its well        *)
(* indented copy test_local.py:136-184 (format_seo_result); the lines      *)
(* 198, 206, 214 and 216 of seo-tools.py are indented one level short.     *)
(***************************************************************************)
EXTENDS Integers, Sequences, FiniteSets, TLC

(***************************************************************************)
(* Bounds of the model and constants of the program                        *)
(***************************************************************************)
MaxPad == 1

KeywordMaxLen == 100

ApiKeyMinLen == 10

SnippetLen == 200

(***************************************************************************)
(* Text helpers                                                            *)
(***************************************************************************)
WS == " "

NL == "\n"

QUOTE == "\""

Rep(c, n) == [i \in 1..n |-> c]

Min(a, b) == IF a < b THEN a ELSE b

\* a variant of Prefix that keeps the whole text
PrefixAll(s, n) == s

\* s[:n]
Prefix(s, n) == SubSeq(s, 1, Min(n, Len(s)))

\* sub in s, for a one-symbol literal sub
Contains(s, sym) == \E i \in 1..Len(s) : s[i] = sym

RECURSIVE LStrip(_)
LStrip(s) == IF s # <<>> /\ Head(s) = WS THEN LStrip(Tail(s)) ELSE s

RECURSIVE RStrip(_)
RStrip(s) ==
    IF s # <<>> /\ s[Len(s)] = WS THEN RStrip(SubSeq(s, 1, Len(s) - 1)) ELSE s

\* str.strip()
Strip(s) == RStrip(LStrip(s))

\* sep.join(parts)
RECURSIVE Join(_, _)
Join(sep, parts) ==
    IF parts = <<>> THEN <<>>
    ELSE IF Len(parts) = 1 THEN parts[1]
    ELSE parts[1] \o sep \o Join(sep, Tail(parts))

(***************************************************************************)
(* JSON values as Python objects.  Every value has the same four fields:   *)
(*   kind  "str" | "num" | "null" | "bool" | "arr" | "obj"                  *)
(*   text  the characters of a str, the digits of a num, true/false        *)
(*   keys  the keys of an obj, in insertion order                          *)
(*   items the elements of an arr, the values of an obj                    *)
(***************************************************************************)
JStr(t) == [kind |-> "str", text |-> t, keys |-> <<>>, items |-> <<>>]

JNum(t) == [kind |-> "num", text |-> t, keys |-> <<>>, items |-> <<>>]

JNull == [kind |-> "null", text |-> <<>>, keys |-> <<>>, items |-> <<>>]

JBool(t) == [kind |-> "bool", text |-> <<t>>, keys |-> <<>>, items |-> <<>>]

JArr(vs) == [kind |-> "arr", text |-> <<>>, keys |-> <<>>, items |-> vs]

JObj(ks, vs) == [kind |-> "obj", text |-> <<>>, keys |-> ks, items |-> vs]

Digits == {"0", "1", "2", "3", "4", "5", "6", "7", "8", "9"}

\* key in d, for a dict d
HasKey(d, k) == \E i \in 1..Len(d.keys) : d.keys[i] = k

\* d[key]
Get(d, k) == d.items[CHOOSE i \in 1..Len(d.keys) : d.keys[i] = k]

\* d[key] = v while a dict is built: a repeated key keeps its place
ObjPut(d, k, v) ==
    IF HasKey(d, k)
    THEN JObj(d.keys, [i \in 1..Len(d.items) |->
                          IF d.keys[i] = k THEN v ELSE d.items[i]])
    ELSE JObj(Append(d.keys, k), Append(d.items, v))

\* bool(v)
Truthy(v) ==
    CASE v.kind = "str" -> v.text # <<>>
      [] v.kind = "num" -> v.text # <<"0">>
      [] v.kind = "null" -> FALSE
      [] v.kind = "bool" -> v.text = <<"true">>
      [] v.kind = "arr" -> v.items # <<>>
      [] v.kind = "obj" -> v.keys # <<>>

\* str(v) and repr(v)
RECURSIVE Repr(_)
ReprItems(vs) == Join(<<",", WS>>, [i \in 1..Len(vs) |-> Repr(vs[i])])

ReprPairs(d) ==
    Join(<<",", WS>>,
         [i \in 1..Len(d.keys) |->
             <<"'">> \o d.keys[i] \o <<"'", ":", WS>> \o Repr(d.items[i])])

Repr(v) ==
    CASE v.kind = "str" -> <<"'">> \o v.text \o <<"'">>
      [] v.kind = "num" -> v.text
      [] v.kind = "null" -> <<"None">>
      [] v.kind = "bool" -> IF v.text = <<"true">> THEN <<"True">> ELSE <<"False">>
      [] v.kind = "arr" -> <<"[">> \o ReprItems(v.items) \o <<"]">>
      [] v.kind = "obj" -> <<"{">> \o ReprPairs(v) \o <<"}">>

Str(v) == IF v.kind = "str" THEN v.text ELSE Repr(v)

(***************************************************************************)
(* response.json(): the JSON decoder, over the symbols of the body         *)
(***************************************************************************)
NoParse(i) == [ok |-> FALSE, val |-> JNull, next |-> i]

Parsed(v, i) == [ok |-> TRUE, val |-> v, next |-> i]

RECURSIVE SkipWs(_, _)
SkipWs(s, i) == IF i <= Len(s) /\ s[i] = WS THEN SkipWs(s, i + 1) ELSE i

\* the index of the quote closing the string that opens before i, 0 if none
RECURSIVE CloseQuote(_, _)
CloseQuote(s, i) ==
    IF i > Len(s) THEN 0
    ELSE IF s[i] = QUOTE THEN i
    ELSE CloseQuote(s, i + 1)

\* the index after the digits that start at i
RECURSIVE DigitsEnd(_, _)
DigitsEnd(s, i) ==
    IF i <= Len(s) /\ s[i] \in Digits THEN DigitsEnd(s, i + 1) ELSE i

ParseString(s, i) ==
    LET j == CloseQuote(s, i + 1)
    IN  IF j = 0 THEN NoParse(i) ELSE Parsed(JStr(SubSeq(s, i + 1, j - 1)), j + 1)

ParseNumber(s, i) ==
    IF s[i] = "0" THEN Parsed(JNum(<<"0">>), i + 1)
    ELSE LET j == DigitsEnd(s, i) IN Parsed(JNum(SubSeq(s, i, j - 1)), j)

RECURSIVE ParseValue(_, _)
RECURSIVE ParseElems(_, _, _)
RECURSIVE ParseMembers(_, _, _)

\* after "[" or ",": a value, then "," or "]"
ParseElems(s, i, acc) ==
    LET r == ParseValue(s, i)
        j == SkipWs(s, r.next)
    IN  IF ~r.ok \/ j > Len(s) THEN NoParse(i)
        ELSE IF s[j] = "]" THEN Parsed(JArr(Append(acc, r.val)), j + 1)
        ELSE IF s[j] = "," THEN ParseElems(s, SkipWs(s, j + 1), Append(acc, r.val))
        ELSE NoParse(i)

\* after "{" or ",": a quoted key, ":", a value, then "," or "}"
ParseMembers(s, i, acc) ==
    IF i > Len(s) \/ s[i] # QUOTE THEN NoParse(i)
    ELSE LET k == ParseString(s, i)
             c == SkipWs(s, k.next)
         IN  IF ~k.ok \/ c > Len(s) \/ s[c] # ":" THEN NoParse(i)
             ELSE LET r == ParseValue(s, SkipWs(s, c + 1))
                      j == SkipWs(s, r.next)
                      d == ObjPut(acc, k.val.text, r.val)
                  IN  IF ~r.ok \/ j > Len(s) THEN NoParse(i)
                      ELSE IF s[j] = "}" THEN Parsed(d, j + 1)
                      ELSE IF s[j] = "," THEN ParseMembers(s, SkipWs(s, j + 1), d)
                      ELSE NoParse(i)

ParseValue(s, i) ==
    IF i > Len(s) THEN NoParse(i)
    ELSE IF s[i] = QUOTE THEN ParseString(s, i)
    ELSE IF s[i] \in Digits THEN ParseNumber(s, i)
    ELSE IF s[i] = "null" THEN Parsed(JNull, i + 1)
    ELSE IF s[i] \in {"true", "false"} THEN Parsed(JBool(s[i]), i + 1)
    ELSE IF s[i] = "[" THEN
        LET j == SkipWs(s, i + 1)
        IN  IF j <= Len(s) /\ s[j] = "]" THEN Parsed(JArr(<<>>), j + 1)
            ELSE ParseElems(s, j, <<>>)
    ELSE IF s[i] = "{" THEN
        LET j == SkipWs(s, i + 1)
        IN  IF j <= Len(s) /\ s[j] = "}" THEN Parsed(JObj(<<>>, <<>>), j + 1)
            ELSE ParseMembers(s, j, JObj(<<>>, <<>>))
    ELSE NoParse(i)

\* json.loads(body): one value, blanks around it, nothing after it
ParseJson(body) ==
    LET r == ParseValue(body, SkipWs(body, 1))
    IN  IF r.ok /\ SkipWs(body, r.next) = Len(body) + 1 THEN r ELSE NoParse(1)

(***************************************************************************)
(* Python operations that raise on the wrong type.  A result is            *)
(* [raised, val]: raised names the exception, "" when there is none.       *)
(***************************************************************************)
NoExc == ""

TypeErrorNotIterable == "argument of type is not iterable"

TypeErrorIndices == "indices must be integers"

\* lit in v, for a str literal lit of one symbol
In(v, lit) ==
    CASE v.kind = "obj" -> [raised |-> NoExc, val |-> HasKey(v, <<lit>>)]
      [] v.kind = "str" -> [raised |-> NoExc, val |-> Contains(v.text, lit)]
      [] v.kind = "arr" ->
            [raised |-> NoExc,
             val |-> \E i \in 1..Len(v.items) : v.items[i] = JStr(<<lit>>)]
      [] OTHER -> [raised |-> TypeErrorNotIterable, val |-> FALSE]

\* v[lit], for a str literal lit that is in v
Subscript(v, lit) ==
    IF v.kind = "obj" THEN [raised |-> NoExc, val |-> Get(v, <<lit>>)]
    ELSE [raised |-> TypeErrorIndices, val |-> JNull]

\* d.get(lit, default), only reached for a dict d
GetOr(d, lit, default) == IF HasKey(d, <<lit>>) THEN Get(d, <<lit>>) ELSE default

\* str(n) for n >= 0
DigitOf(d) == <<"0", "1", "2", "3", "4", "5", "6", "7", "8", "9">>[d + 1]

RECURSIVE IntStr(_)
IntStr(n) == IF n < 10 THEN <<DigitOf(n)>> ELSE IntStr(n \div 10) \o <<DigitOf(n % 10)>>

(***************************************************************************)
(* The literals of seo-tools.py, one symbol each                           *)
(***************************************************************************)
MsgStart == <<"[rocket] plugin starts">>

MsgParamInfo == "[clipboard] parameters:"

MsgParamStatus == "[clipboard] parameter status:"

MsgMissingParam == <<"[x] error: a required parameter is missing (keyword or API key)">>

MsgStartCall == <<"[antenna] calling the 5118 API...">>

MsgPluginError == "[siren] plugin error: "

MsgKeywordEmpty == <<"[x] error: the main keyword must not be empty">>

MsgKeywordTooLong == <<"[x] error: the main keyword must not exceed 100 characters">>

MsgApiKeyEmpty == <<"[x] error: the API key must not be empty">>

MsgApiKeyMalformed == <<"[x] error: the API key is malformed">>

MsgApiError == "[x] API error: "

MsgUnknownError == <<"unknown error">>

Msg401 == <<"[x] the API key is invalid or expired">>

Msg403 == <<"[x] the API key lacks permission, check balance or permissions">>

Msg429 == <<"[x] the API rate limit is exceeded, retry later">>

MsgStatus == "[x] the API call failed, status code: "

MsgBody == "response: "

MsgTimeout == <<"[x] the API request timed out">>

MsgConnection == <<"[x] network connection error">>

MsgRequestError == "[x] network request error: "

MsgEmptyData == <<"[x] the API returned empty data">>

RawHeader == "[chart] 5118 SEO metadata result:"

Header == <<"[target] 5118 SEO metadata result">>

Rule == <<"========================================">>

LabelMeta == <<"[memo] SEO metadata:">>

LabelApiError == <<"[x] API error:">>

LabelErrCode == "   error code: "

LabelErrMsg == "   error message: "

LabelKey == "[pin] "

Indent == "   "

Footer == <<"[check] SEO metadata generated!">>

ERRCODE == "errcode"

ERRMSG == "errmsg"

DATA == "data"

RAW == "raw_response"

(***************************************************************************)
(* _validate_parameters (never called by _invoke)                          *)
(***************************************************************************)
None == <<"None">>

_validate_parameters(keywords, apikey) ==
    IF keywords = <<>> THEN MsgKeywordEmpty
    ELSE IF Len(keywords) > KeywordMaxLen THEN MsgKeywordTooLong
    ELSE IF apikey = <<>> THEN MsgApiKeyEmpty
    ELSE IF Len(apikey) < ApiKeyMinLen THEN MsgApiKeyMalformed
    ELSE None

(***************************************************************************)
(* _call_5118_api.  An api_response is [raised, success, data, error]:     *)
(* raised names the exception that leaves the function, "" when it         *)
(* returns the dict {success, data} or {success, error}.                   *)
(***************************************************************************)
Success(v) == [raised |-> NoExc, success |-> TRUE, data |-> v, error |-> <<>>]

Failure(msg) == [raised |-> NoExc, success |-> FALSE, data |-> JNull, error |-> msg]

Raise(exc) == [raised |-> exc, success |-> FALSE, data |-> JNull, error |-> <<>>]

\* urllib.parse.quote_plus
QuotePlus(s) == [i \in 1..Len(s) |-> IF s[i] = WS THEN "+" ELSE s[i]]

\* urllib.parse.urlencode(data_params)
UrlEncode(keywords, adverb) ==
    <<"keywords", "=">> \o QuotePlus(keywords)
        \o (IF adverb # <<>> THEN <<"&", "adverb", "=">> \o QuotePlus(adverb) ELSE <<>>)

\* the request of lines 92-115
BuildRequest(keywords, adverb, apikey) ==
    [ev |-> "post", text |-> UrlEncode(keywords, adverb), auth |-> apikey]

\* a variant of ClassifyParsed that takes the number 0 for the string "0"
ClassifyParsedLoose(result_data) ==
    LET has == In(result_data, ERRCODE)
        code == Subscript(result_data, ERRCODE)
    IN  IF has.raised # NoExc THEN Raise(has.raised)
        ELSE IF has.val THEN
            IF code.raised # NoExc THEN Raise(code.raised)
            ELSE IF Str(code.val) = <<"0">> THEN Success(result_data)
            ELSE Failure(<<MsgApiError>>
                           \o Str(GetOr(result_data, ERRMSG, JStr(MsgUnknownError))))
        ELSE Success(result_data)

\* a variant of ClassifyParsed that does not look at errcode
ClassifyParsedNoCheck(result_data) ==
    LET has == In(result_data, ERRCODE)
    IN  IF has.raised # NoExc THEN Raise(has.raised) ELSE Success(result_data)

\* lines 123-142: the parsed body
ClassifyParsed(result_data) ==
    LET has == In(result_data, ERRCODE)
        code == Subscript(result_data, ERRCODE)
    IN  IF has.raised # NoExc THEN Raise(has.raised)
        ELSE IF has.val THEN
            IF code.raised # NoExc THEN Raise(code.raised)
            ELSE IF code.val = JStr(<<"0">>) THEN Success(result_data)
            ELSE Failure(<<MsgApiError>>
                           \o Str(GetOr(result_data, ERRMSG, JStr(MsgUnknownError))))
        ELSE Success(result_data)

\* a variant of Classify200 that trims the raw text
Classify200Stripped(text) ==
    LET r == ParseJson(text)
    IN  IF r.ok THEN ClassifyParsed(r.val)
        ELSE Success(JObj(<< <<RAW>> >>, <<JStr(Strip(text))>>))

\* lines 118-149: status 200
Classify200(text) ==
    LET r == ParseJson(text)
    IN  IF r.ok THEN ClassifyParsed(r.val)
        ELSE Success(JObj(<< <<RAW>> >>, <<JStr(text)>>))

\* lines 117-170: the response
ClassifyResponse(status_code, text) ==
    IF status_code = 200 THEN Classify200(text)
    ELSE IF status_code = 401 THEN Failure(Msg401)
    ELSE IF status_code = 403 THEN Failure(Msg403)
    ELSE IF status_code = 429 THEN Failure(Msg429)
    ELSE Failure(<<MsgStatus>> \o IntStr(status_code) \o <<NL, MsgBody>>
                   \o Prefix(text, SnippetLen))

\* a variant of ClassifyFault that reports a connection error as a timeout
ClassifyFaultMerged(fault, exc) ==
    IF fault \in {"Timeout", "ConnectionError"} THEN Failure(MsgTimeout)
    ELSE Failure(<<MsgRequestError>> \o exc)

\* lines 172-177: the exceptions of requests.post
ClassifyFault(fault, exc) ==
    IF fault = "Timeout" THEN Failure(MsgTimeout)
    ELSE IF fault = "ConnectionError" THEN Failure(MsgConnection)
    ELSE Failure(<<MsgRequestError>> \o exc)

\* what requests.post did: a response, or a fault with str(e) = exc
_call_5118_api(resp) ==
    IF resp.fault = "none" THEN ClassifyResponse(resp.status_code, resp.text)
    ELSE ClassifyFault(resp.fault, resp.exc)

(***************************************************************************)
(* _format_seo_result: [raised, text]                                      *)
(***************************************************************************)
Returns(t) == [raised |-> NoExc, text |-> t]

Raises(exc) == [raised |-> exc, text |-> <<>>]

\* lines 194-211: errcode and data are both there
FormatEnvelope(result_data) ==
    IF Get(result_data, <<ERRCODE>>) = JStr(<<"0">>)
    THEN <<LabelMeta, <<Indent>> \o Str(Get(result_data, <<DATA>>)), <<>> >>
    ELSE <<LabelApiError,
           <<LabelErrCode>> \o Str(Get(result_data, <<ERRCODE>>)),
           <<LabelErrMsg>> \o Str(GetOr(result_data, ERRMSG, JStr(MsgUnknownError))),
           <<>> >>

\* lines 214-220: every key whose value is true
RECURSIVE FormatFields(_, _)
FormatFields(result_data, i) ==
    IF i > Len(result_data.keys) THEN <<>>
    ELSE (IF Truthy(result_data.items[i])
          THEN <<<<LabelKey>> \o result_data.keys[i] \o <<":">>,
                 <<Indent>> \o Str(result_data.items[i]),
                 <<>> >>
          ELSE <<>>)
         \o FormatFields(result_data, i + 1)

\* a variant of FormatLines that leaves the footer out
FormatLinesNoFooter(result_data) ==
    <<Header, Rule, <<>> >>
    \o (IF result_data.kind = "obj"
        THEN IF HasKey(result_data, <<ERRCODE>>) /\ HasKey(result_data, <<DATA>>)
             THEN FormatEnvelope(result_data)
             ELSE FormatFields(result_data, 1)
        ELSE <<Str(result_data)>>)

\* lines 189-227: the lines of the output
FormatLines(result_data) ==
    <<Header, Rule, <<>> >>
    \o (IF result_data.kind = "obj"
        THEN IF HasKey(result_data, <<ERRCODE>>) /\ HasKey(result_data, <<DATA>>)
             THEN FormatEnvelope(result_data)
             ELSE FormatFields(result_data, 1)
        ELSE <<Str(result_data)>>)
    \o << <<>>, Footer>>

_format_seo_result(result_data) ==
    LET has == In(result_data, RAW)
        raw == Subscript(result_data, RAW)
    IN  IF ~Truthy(result_data) THEN Returns(MsgEmptyData)
        ELSE IF has.raised # NoExc THEN Raises(has.raised)
        ELSE IF has.val THEN
            IF raw.raised # NoExc THEN Raises(raw.raised)
            ELSE Returns(<<RawHeader, NL, NL>> \o Str(raw.val))
        ELSE Returns(Join(<<NL>>, FormatLines(result_data)))

(***************************************************************************)
(* Inputs: the parameter dicts the host passes, and what requests.post     *)
(* can do                                                                  *)
(***************************************************************************)
Absent == [kind |-> "absent", text |-> <<>>, keys |-> <<>>, items |-> <<>>]

\* the dict of the pairs whose value is not Absent
RECURSIVE MkObj(_, _)
MkObj(ks, vs) ==
    IF ks = <<>> THEN JObj(<<>>, <<>>)
    ELSE LET d == MkObj(Tail(ks), Tail(vs))
         IN  IF Head(vs) = Absent THEN d
             ELSE JObj(<<Head(ks)>> \o d.keys, <<Head(vs)>> \o d.items)

\* a core with up to MaxPad blanks before it or after it
Padded(cores) ==
    cores \cup {Rep(WS, n) \o c : n \in 1..MaxPad, c \in cores}
          \cup {c \o Rep(WS, n) : n \in 1..MaxPad, c \in cores}

KeywordTexts ==
    Padded({<<>>, <<"a">>})
    \cup {<<"a", WS, "b">>, Rep("a", KeywordMaxLen), Rep("a", KeywordMaxLen + 1)}

ApiKeyTexts ==
    Padded({<<>>, Rep("k", ApiKeyMinLen - 1)}) \cup {Rep("k", ApiKeyMinLen)}

AdverbTexts == {<<>>, <<"c">>}

Optional(texts) == {Absent} \cup {JStr(t) : t \in texts}

ParamDicts ==
    {MkObj(<< <<"keywords">>, <<"adverb">>, <<"apikey">> >>, <<k, a, key>>) :
        k \in Optional(KeywordTexts), a \in Optional(AdverbTexts),
        key \in Optional(ApiKeyTexts)}

\* json.dumps, to write the bodies a server sends
RECURSIVE Dumps(_)
DumpsStr(t) == <<QUOTE>> \o t \o <<QUOTE>>

Dumps(v) ==
    CASE v.kind = "str" -> DumpsStr(v.text)
      [] v.kind = "num" -> v.text
      [] v.kind = "null" -> <<"null">>
      [] v.kind = "bool" -> v.text
      [] v.kind = "arr" ->
            <<"[">> \o Join(<<",", WS>>, [i \in 1..Len(v.items) |-> Dumps(v.items[i])])
                \o <<"]">>
      [] v.kind = "obj" ->
            <<"{">> \o Join(<<",", WS>>,
                            [i \in 1..Len(v.keys) |->
                                DumpsStr(v.keys[i]) \o <<":", WS>> \o Dumps(v.items[i])])
                \o <<"}">>

ErrcodeValues == {JStr(<<"0">>), JNum(<<"0">>), JStr(<<"1", "0", "0", "1">>)}

ErrmsgValues == {JStr(<<"m">>), JStr(<<>>), JNull}

DataValues ==
    {JStr(<<"t", WS, "d">>), JStr(<<>>),
     JObj(<< <<"title">> >>, <<JArr(<<JStr(<<"t">>), JNum(<<"5">>)>>)>>)}

RawValues == {JStr(<<"r">>)}

OtherValues == {JStr(<<"v">>), JNum(<<"0">>), JBool("true")}

JsonObjects ==
    {MkObj(<< <<ERRCODE>>, <<ERRMSG>>, <<DATA>>, <<RAW>>, <<"k">> >>, <<c, m, d, r, o>>) :
        c \in ErrcodeValues \cup {Absent}, m \in ErrmsgValues \cup {Absent},
        d \in DataValues \cup {Absent}, r \in RawValues \cup {Absent},
        o \in OtherValues \cup {Absent}}

JsonScalars ==
    {JStr(<<>>), JStr(<<"a">>), JStr(<<ERRCODE>>), JStr(<<"a", RAW>>),
     JNum(<<"0">>), JNum(<<"5">>), JNull, JBool("true"), JBool("false")}

JsonArrays ==
    {JArr(<<>>), JArr(<<JNum(<<"1">>)>>), JArr(<<JStr(<<ERRCODE>>)>>),
     JArr(<<JStr(<<"a">>), JStr(<<RAW>>)>>), JArr(<<JStr(<<DATA>>), JNull>>)}

\* every text of at most MaxText symbols of TextAlphabet
MaxText == 2

TextAlphabet == {"x", WS, QUOTE, "{", "1"}

Texts == UNION {[1..n -> TextAlphabet] : n \in 0..MaxText}

Bodies200 ==
    {Dumps(v) : v \in JsonObjects \cup JsonScalars \cup JsonArrays}
    \cup Texts
    \cup {<<"p", "l", "a", "i", "n", WS, "t", "e", "x", "t">>,
          <<"0", "1">>, <<"[", "1", ",", "]">>, <<"{", QUOTE, "a", QUOTE, "}">>,
          <<"{", "}", "x">>, <<WS, "{", QUOTE, ERRCODE, QUOTE, WS, ":", "0", "}", WS>>,
          <<"{", QUOTE, ERRCODE, QUOTE, ":", QUOTE, "1", QUOTE, ",",
            QUOTE, ERRCODE, QUOTE, ":", QUOTE, "0", QUOTE, "}">>}

OtherStatuses == {201, 400, 401, 403, 429, 500}

BodiesOther ==
    {<<>>, <<"x", WS>>, Dumps(JObj(<< <<ERRCODE>> >>, <<JStr(<<"0">>)>>))}
    \cup {Rep("x", n) : n \in (SnippetLen - 1)..(SnippetLen + 1)}

Response(code, body) == [fault |-> "none", status_code |-> code, text |-> body, exc |-> <<>>]

Fault(name, msg) == [fault |-> name, status_code |-> 0, text |-> <<>>, exc |-> msg]

\* requests.post has not been called
NoResponse == Fault("unset", <<>>)

Responses ==
    {Response(200, b) : b \in Bodies200}
    \cup {Response(c, b) : c \in OtherStatuses, b \in BodiesOther}
    \cup {Fault(f, <<>>) : f \in {"Timeout", "ConnectionError"}}
    \cup {Fault("RequestException", m) : m \in {<<>>, <<"e">>}}

(***************************************************************************)
(* _invoke, a generator: one action per resumption, up to the next yield;  *)
(* the resumption that calls the API is cut in two at requests.post        *)
(***************************************************************************)
VARIABLES
    pc,               \* where the generator stands
    tool_parameters,  \* the dict the host passed
    keywords,         \* the locals of lines 43-45
    adverb,
    apikey,
    response,         \* what requests.post returned or raised
    api_response,     \* the dict _call_5118_api returned
    events            \* the text messages yielded and the requests posted, in order

vars == <<pc, tool_parameters, keywords, adverb, apikey, response, api_response, events>>

Yield(t) == [ev |-> "yield", text |-> t, auth |-> <<>>]

\* tool_parameters.get(name, '').strip()
Param(params, name) ==
    Strip(IF HasKey(params, <<name>>) THEN Get(params, <<name>>).text ELSE <<>>)

ParamInfo(params) == <<MsgParamInfo, NL>> \o Str(params) \o <<NL>>

ParamStatus(k, a, key) ==
    <<MsgParamStatus, NL, "- keywords: ">> \o k \o <<NL, "- adverb: ">> \o a
        \o <<NL, "- apikey: ", IF key # <<>> THEN "set" ELSE "not set", NL>>

\* lines 63-71: the last message
Terminal(result) ==
    LET formatted_result == _format_seo_result(result.data)
    IN  IF result.raised # NoExc THEN <<MsgPluginError, result.raised>>
        ELSE IF ~result.success THEN result.error
        ELSE IF formatted_result.raised # NoExc
             THEN <<MsgPluginError, formatted_result.raised>>
        ELSE formatted_result.text

Init ==
    /\ pc = "idle"
    /\ tool_parameters = JObj(<<>>, <<>>)
    /\ keywords = <<>>
    /\ adverb = <<>>
    /\ apikey = <<>>
    /\ response = NoResponse
    /\ api_response = Failure(<<>>)
    /\ events = <<>>

\* the host calls _invoke: line 31
Invoke(params) ==
    /\ pc = "idle"
    /\ tool_parameters' = params
    /\ keywords' = <<>>
    /\ adverb' = <<>>
    /\ apikey' = <<>>
    /\ response' = NoResponse
    /\ api_response' = Failure(<<>>)
    /\ events' = <<Yield(MsgStart)>>
    /\ pc' = "param_info"

\* lines 34-35
YieldParamInfo ==
    /\ pc = "param_info"
    /\ events' = Append(events, Yield(ParamInfo(tool_parameters)))
    /\ pc' = "param_status"
    /\ UNCHANGED <<tool_parameters, keywords, adverb, apikey, response, api_response>>

\* lines 38-49
YieldParamStatus ==
    /\ pc = "param_status"
    /\ keywords' = Param(tool_parameters, "keywords")
    /\ adverb' = Param(tool_parameters, "adverb")
    /\ apikey' = Param(tool_parameters, "apikey")
    /\ events' = Append(events, Yield(ParamStatus(keywords', adverb', apikey')))
    /\ pc' = "check"
    /\ UNCHANGED <<tool_parameters, response, api_response>>

\* a variant of Rejected that forgets the API key
RejectedKeywordOnly(k, key) == k = <<>>

\* the test of line 52
Rejected(k, key) == k = <<>> \/ key = <<>>

\* a variant of Reject without the return of line 54
RejectFallsThrough ==
    /\ pc = "check"
    /\ Rejected(keywords, apikey)
    /\ events' = Append(events, Yield(MsgMissingParam))
    /\ pc' = "call"
    /\ UNCHANGED <<tool_parameters, keywords, adverb, apikey, response, api_response>>

\* lines 52-54
Reject ==
    /\ pc = "check"
    /\ Rejected(keywords, apikey)
    /\ events' = Append(events, Yield(MsgMissingParam))
    /\ pc' = "done"
    /\ UNCHANGED <<tool_parameters, keywords, adverb, apikey, response, api_response>>

\* lines 56-57
YieldStartCall ==
    /\ pc = "check"
    /\ ~Rejected(keywords, apikey)
    /\ events' = Append(events, Yield(MsgStartCall))
    /\ pc' = "call"
    /\ UNCHANGED <<tool_parameters, keywords, adverb, apikey, response, api_response>>

\* lines 60, 92-115: the request leaves
Post ==
    /\ pc = "call"
    /\ events' = Append(events, BuildRequest(keywords, adverb, apikey))
    /\ pc' = "posted"
    /\ UNCHANGED <<tool_parameters, keywords, adverb, apikey, response, api_response>>

\* lines 117-177 and 62-71: requests.post returns or raises, the last message
Respond(resp) ==
    /\ pc = "posted"
    /\ response' = resp
    /\ api_response' = _call_5118_api(resp)
    /\ events' = Append(events, Yield(Terminal(api_response')))
    /\ pc' = "done"
    /\ UNCHANGED <<tool_parameters, keywords, adverb, apikey>>

\* the generator is exhausted: nothing of the invocation outlives it
Return ==
    /\ pc = "done"
    /\ tool_parameters' = JObj(<<>>, <<>>)
    /\ keywords' = <<>>
    /\ adverb' = <<>>
    /\ apikey' = <<>>
    /\ response' = NoResponse
    /\ api_response' = Failure(<<>>)
    /\ events' = <<>>
    /\ pc' = "idle"

Next ==
    \/ \E params \in ParamDicts : Invoke(params)
    \/ YieldParamInfo
    \/ YieldParamStatus
    \/ Reject
    \/ YieldStartCall
    \/ Post
    \/ \E resp \in Responses : Respond(resp)
    \/ Return

Spec == Init /\ [][Next]_vars

(***************************************************************************)
(* Observations on the events of one invocation                            *)
(***************************************************************************)
IsYield(e) == e.ev = "yield"

IsPost(e) == e.ev = "post"

Messages == SelectSeq(events, IsYield)

Posts == SelectSeq(events, IsPost)

LastText == events[Len(events)].text

ProgressHeads == {MsgStart[1], MsgParamInfo, MsgParamStatus, MsgStartCall[1]}

IsProgress(t) == t # <<>> /\ t[1] \in ProgressHeads

IsTerminalEvent(e) == IsYield(e) /\ ~IsProgress(e.text)

TerminalCount == Len(SelectSeq(events, IsTerminalEvent))

\* the parameter is missing, empty or made of blanks only
Blank(params, name) ==
    \/ ~HasKey(params, <<name>>)
    \/ \A i \in 1..Len(Get(params, <<name>>).text) : Get(params, <<name>>).text[i] = WS

EndsWithFooter(t) == Len(t) >= 2 /\ t[Len(t)] = Footer[1] /\ t[Len(t) - 1] = NL

Got200 == pc = "done" /\ response.fault = "none" /\ response.status_code = 200

ParsedBody == ParseJson(response.text)

\* the invocation reached the Formatter with this payload
Formatted == pc = "done" /\ api_response.raised = NoExc /\ api_response.success

(***************************************************************************)
(* C1: an invocation whose keywords or apikey is missing, empty or blank   *)
(* posts no request, and ends with the missing-parameter message after     *)
(* the three progress messages.                                            *)
(***************************************************************************)
C1_RejectsBlank ==
    (Blank(tool_parameters, "keywords") \/ Blank(tool_parameters, "apikey"))
        => /\ Posts = <<>>
           /\ pc \notin {"call", "posted"}
           /\ pc = "done" => /\ LastText = MsgMissingParam
                             /\ Len(events) = 4

C1_Witness ==
    /\ pc = "done"
    /\ HasKey(tool_parameters, <<"keywords">>)
    /\ Get(tool_parameters, <<"keywords">>).text = <<WS>>
    /\ HasKey(tool_parameters, <<"apikey">>)
    /\ Len(Get(tool_parameters, <<"apikey">>).text) = ApiKeyMinLen
    /\ LastText = MsgMissingParam
    /\ Posts = <<>>

(***************************************************************************)
(* C2: a request is only ever posted with 1 <= len(keywords) <= 100 and    *)
(* len(apikey) >= 10, that is with parameters _validate_parameters         *)
(* accepts.                                                                *)
(***************************************************************************)
C2_PostsOnlyValid ==
    Posts # <<>> => /\ Len(keywords) >= 1
                    /\ Len(keywords) <= KeywordMaxLen
                    /\ Len(apikey) >= ApiKeyMinLen
                    /\ _validate_parameters(keywords, apikey) = None

(***************************************************************************)
(* C3: for a 200 response whose body parses as a JSON object, the outcome  *)
(* is Success with the parsed object exactly when the object has no        *)
(* errcode or its errcode is the string "0"; otherwise it is Failure with  *)
(* "API error: " followed by errmsg, or by "unknown error" when errmsg is  *)
(* absent.                                                                 *)
(***************************************************************************)
C3_EnvelopeClassified ==
    (Got200 /\ ParsedBody.ok /\ ParsedBody.val.kind = "obj") =>
        LET o == ParsedBody.val
        IN  /\ api_response.raised = NoExc
            /\ IF ~HasKey(o, <<ERRCODE>>) \/ Get(o, <<ERRCODE>>) = JStr(<<"0">>)
               THEN /\ api_response.success
                    /\ api_response.data = o
               ELSE /\ ~api_response.success
                    /\ api_response.error =
                         <<MsgApiError>> \o (IF HasKey(o, <<ERRMSG>>)
                                             THEN Str(Get(o, <<ERRMSG>>))
                                             ELSE MsgUnknownError)
                    /\ LastText = api_response.error

C3_Witness ==
    /\ Got200
    /\ ParsedBody.ok
    /\ ParsedBody.val.kind = "obj"
    /\ HasKey(ParsedBody.val, <<ERRCODE>>)
    /\ Get(ParsedBody.val, <<ERRCODE>>) = JNum(<<"0">>)
    /\ ~HasKey(ParsedBody.val, <<ERRMSG>>)
    /\ LastText = <<MsgApiError>> \o MsgUnknownError

(***************************************************************************)
(* C4: a response whose status is not 200 is a Failure: 401, 403 and 429   *)
(* give the fixed message of the status whatever the body, any other       *)
(* status gives the status code and the first 200 characters of the body   *)
(* (the whole body when it is shorter).                                    *)
(***************************************************************************)
C4_StatusFailure ==
    (pc = "done" /\ response.fault = "none" /\ response.status_code # 200) =>
        /\ api_response.raised = NoExc
        /\ ~api_response.success
        /\ LastText = api_response.error
        /\ api_response.error =
             CASE response.status_code = 401 -> Msg401
               [] response.status_code = 403 -> Msg403
               [] response.status_code = 429 -> Msg429
               [] OTHER ->
                    <<MsgStatus>> \o IntStr(response.status_code) \o <<NL, MsgBody>>
                        \o (IF Len(response.text) <= SnippetLen THEN response.text
                            ELSE [i \in 1..SnippetLen |-> response.text[i]])

C4_Witness ==
    /\ pc = "done"
    /\ response.fault = "none"
    /\ response.status_code = 500
    /\ Len(response.text) = SnippetLen + 1
    /\ Len(LastText) = SnippetLen + 6
    /\ LastText[SnippetLen + 6] = "x"
    /\ SubSeq(LastText, 2, 4) = <<"5", "0", "0">>

(***************************************************************************)
(* C5: for a 200 response whose body t is not JSON, the empty body         *)
(* included, the outcome is Success with {raw_response: t} and the last    *)
(* message is the raw header followed by t, unchanged.                     *)
(***************************************************************************)
C5_RawVerbatim ==
    (Got200 /\ ~ParsedBody.ok) =>
        /\ api_response = Success(JObj(<< <<RAW>> >>, <<JStr(response.text)>>))
        /\ LastText = <<RawHeader, NL, NL>> \o response.text

C5_Witness ==
    /\ Got200
    /\ response.text = <<>>
    /\ api_response.success
    /\ LastText = <<RawHeader, NL, NL>>

(***************************************************************************)
(* C6: when requests.post raises a timeout, a connection error or another  *)
(* request exception, the outcome is a Failure, no exception leaves        *)
(* _call_5118_api, the message tells the three apart, and the invocation   *)
(* ends with that one error message.                                       *)
(***************************************************************************)
FaultNames == {"Timeout", "ConnectionError", "RequestException"}

FaultHead(f) ==
    CASE f = "Timeout" -> MsgTimeout[1]
      [] f = "ConnectionError" -> MsgConnection[1]
      [] f = "RequestException" -> MsgRequestError

C6_FaultsHandled ==
    (pc = "done" /\ response.fault \in FaultNames) =>
        /\ api_response.raised = NoExc
        /\ ~api_response.success
        /\ LastText = api_response.error
        /\ LastText[1] # MsgPluginError
        /\ \A f \in FaultNames : LastText[1] = FaultHead(f) <=> f = response.fault
        /\ response.fault = "RequestException" => Tail(LastText) = response.exc
        /\ TerminalCount = 1

C6_Witness ==
    /\ pc = "done"
    /\ response.fault = "ConnectionError"
    /\ LastText = MsgConnection
    /\ Len(Posts) = 1

(***************************************************************************)
(* C7 as stated: for every Success outcome the formatted text ends with    *)
(* the footer line.                                                        *)
(***************************************************************************)
C7_Original == Formatted => EndsWithFooter(LastText)

(***************************************************************************)
(* C7 amended: for every Success outcome whose payload is not empty and    *)
(* does not contain raw_response, the formatted text ends with the footer  *)
(* line.                                                                   *)
(***************************************************************************)
C7_FooterUnlessRawOrEmpty ==
    (/\ Formatted
     /\ Truthy(api_response.data)
     /\ ~In(api_response.data, RAW).val) => EndsWithFooter(LastText)

C7_Witness ==
    /\ Formatted
    /\ api_response.data.kind = "obj"
    /\ ~HasKey(api_response.data, <<ERRCODE>>)
    /\ HasKey(api_response.data, <<DATA>>)
    /\ HasKey(api_response.data, <<"k">>)
    /\ EndsWithFooter(LastText)

(***************************************************************************)
(* C8: the events of an invocation are progress messages, then at most     *)
(* one request, then one terminal message, which is the last event; the    *)
(* request comes right after the "calling the API" message; a finished     *)
(* invocation has one terminal message, and one request unless it was      *)
(* rejected or failed before the call.                                     *)
(***************************************************************************)
C8_EventOrder ==
    /\ Len(Posts) <= 1
    /\ TerminalCount <= 1
    /\ \A i \in 1..Len(events) :
          /\ IsTerminalEvent(events[i]) => (i = Len(events) /\ pc = "done")
          /\ IsPost(events[i]) => (i > 1 /\ events[i - 1] = Yield(MsgStartCall))
    /\ pc = "done" =>
          /\ TerminalCount = 1
          /\ Len(Posts) = (IF LastText = MsgMissingParam THEN 0 ELSE 1)
          /\ Len(Messages) = (IF LastText = MsgMissingParam THEN 4 ELSE 5)

C8_Witness ==
    /\ pc = "done"
    /\ Len(events) = 6
    /\ IsPost(events[5])
    /\ ~api_response.success
    /\ LastText = MsgTimeout

(***************************************************************************)
(* C9 as stated: a payload that reaches the Formatter with both errcode    *)
(* and data has errcode "0", and its output is the header, the content of  *)
(* data and the footer.                                                    *)
(***************************************************************************)
EnvelopeText(d) ==
    Join(<<NL>>, <<Header, Rule, <<>>, LabelMeta, <<Indent>> \o Str(Get(d, <<DATA>>)),
                   <<>>, <<>>, Footer>>)

IsEnvelope(d) == d.kind = "obj" /\ HasKey(d, <<ERRCODE>>) /\ HasKey(d, <<DATA>>)

C9_Original ==
    (Formatted /\ IsEnvelope(api_response.data)) =>
        /\ Get(api_response.data, <<ERRCODE>>) = JStr(<<"0">>)
        /\ LastText = EnvelopeText(api_response.data)

(***************************************************************************)
(* C9 amended: a payload that reaches the Formatter with both errcode and  *)
(* data has errcode "0" and is never rendered as an API error; unless it   *)
(* also has a raw_response key, its output is the header, the content of   *)
(* data and the footer.                                                    *)
(***************************************************************************)
C9_EnvelopeRendered ==
    (Formatted /\ IsEnvelope(api_response.data)) =>
        /\ Get(api_response.data, <<ERRCODE>>) = JStr(<<"0">>)
        /\ ~Contains(LastText, LabelApiError[1])
        /\ ~HasKey(api_response.data, <<RAW>>) =>
              LastText = EnvelopeText(api_response.data)

C9_Witness ==
    /\ Formatted
    /\ IsEnvelope(api_response.data)
    /\ Get(api_response.data, <<DATA>>).kind = "obj"
    /\ ~HasKey(api_response.data, <<RAW>>)
    /\ LastText = EnvelopeText(api_response.data)

(***************************************************************************)
(* C10: for a 200 response whose body parses to a JSON string, number or   *)
(* array, the outcome is Success with that value and the last message is   *)
(* the header, the string form of the value and the footer.                *)
(***************************************************************************)
C10_NonObjectRendered ==
    (Got200 /\ ParsedBody.ok /\ ParsedBody.val.kind \in {"str", "num", "arr"}) =>
        /\ api_response = Success(ParsedBody.val)
        /\ LastText = Join(<<NL>>, <<Header, Rule, <<>>, Str(ParsedBody.val),
                                     <<>>, Footer>>)

====
